---------------------------- MODULE Spec2Model ----------------------------
(***************************************************************************)
(* A model of the note-editing session of src/libs/web/state/editor.ts     *)
(* (the useEditor hook): the debounced commit onNoteChange, onEditorChange, *)
(* saveNote, toggleEditMode, the hover dispatcher onHoverLink and the       *)
(* backlink scan getBackLinks.                                              *)
(*                                                                         *)
(* The hook is single threaded.  Every action below is one event handler   *)
(* run to completion, or one resumption of an async function after an      *)
(* await, together with the promise reactions (microtasks) it triggers.    *)
(*                                                                         *)
(* onNoteChange is built with useDebouncedCallback(fn, 500) and is used    *)
(* through its `callback` field.  That field is the trailing-edge          *)
(* debounced function: a call stores its arguments as the latest ones,     *)
(* (re)starts the 500 ms timer and returns the value returned by the most  *)
(* recent invocation of fn (undefined when fn was never invoked); when the *)
(* timer elapses fn is invoked once with the latest arguments.             *)
(***************************************************************************)
EXTENDS Naturals, Sequences, FiniteSets

\* ------------------------------------------------------------- bounds
\* Calls of onNoteChange.callback (by onEditorChange or saveNote) in a run.
MaxCalls == 2
\* Times another note becomes the bound one in a run.
MaxNavs == 1

\* ----------------------------------------------------------- universes
NoteIds == {"n1", "n2"}
\* Values the editor hands to onEditorChange.
Contents == {"a", "b"}
ROOT_ID == "root"
\* Arguments of a call of the debounced function: the patch content, and as
\* history the number of the call, its caller and the note bound at the call.
NoArgs == [content |-> "", call |-> 0, src |-> "none", note |-> "none"]
\* No beforeunload event is being handled.
NoEvent == "none"
NoWindow == [n |-> 0, pure |-> TRUE, varied |-> FALSE, last |-> NoArgs]

VARIABLES
    isEditing,       \* the isEditing state of the hook
    currentContent,  \* the currentContent state of the hook
    note,            \* id of the note the session is bound to
    store,           \* persisted content of each note (note.content)
    query,           \* router.query: [new: has 'new', pid: the pid or ""]
    asPath,          \* router.asPath, as a sequence of path segments
    timer,           \* TRUE while the debounce timer of onNoteChange runs
    lastArgs,        \* latest arguments handed to onNoteChange.callback
    window,          \* history: number of calls since the timer was started,
                     \* whether all were edits, whether their contents
                     \* differed, and the last of them
    windows,         \* number of debounce windows opened so far (history)
    navs,            \* number of note changes so far
    calls,           \* number of onNoteChange.callback calls so far
    commits,         \* invocations of the debounced function, oldest first
    saveWait,        \* the suspended saveNote calls and the promise each awaits
    toasts           \* history: the notifications given to the sink

editorVars == <<isEditing, currentContent, note, store, query, asPath, timer,
                lastArgs, window, windows, calls, commits, saveWait, toasts, navs>>

VARIABLES
    isBrowser,       \* ua.isBrowser of UIState
    readOnly,        \* editorEl.current?.props.readOnly
    preview,         \* PortalState.preview: [id, anchor, visible]
    linkToolbar,     \* PortalState.linkToolbar: [href, anchor]
    event            \* history: the last hover-related event

hoverVars == <<isBrowser, readOnly, preview, linkToolbar, event>>

VARIABLES
    noteCache,       \* the snapshots of noteCache, in iteration order
    backlinks,       \* the backlinks state of the hook
    scans,           \* the getBackLinks calls whose iteration is running
    published,       \* history: note id of the scan that published last
    lastCall         \* history: note id at the most recent getBackLinks call

backVars == <<noteCache, backlinks, scans, published, lastCall>>

VARIABLES
    returnValue      \* e.returnValue of the last beforeunload event, while
                     \* nothing else has happened since

VARIABLES
    links            \* the onCreateLink calls, oldest first

VARIABLES
    onerror,             \* window.onerror
    onunhandledrejection, \* window.onunhandledrejection
    routeListener,       \* handleRouteError is registered on router.events
    mounted,             \* RouteErrorHandler is mounted
    originalErrorHandler,        \* the handlers saved by the effect
    originalUnhandledRejection,
    editModeToggle,      \* window.__EDIT_MODE_TOGGLE__
    report               \* history: the last error event and its handling

errVars == <<onerror, onunhandledrejection, routeListener, mounted,
             originalErrorHandler, originalUnhandledRejection, editModeToggle,
             report>>

\* The variables outside the editing session, the hover state and the scan.
sideVars == <<links, errVars>>

vars == <<editorVars, hoverVars, backVars, returnValue, sideVars>>

\* ------------------------------------------------------------ helpers
Truthy(s) == s # ""

\* `/${id}` as path segments; item?.id of a missing item prints "undefined".
NoteUrl(id) == <<"/", id>>

NewUrl(id) == <<"/", id, "?new">>

KeepArgsFirst(prev, new) == IF prev.call = 0 THEN new ELSE prev

\* The arguments the debounced function keeps: the latest call wins.
KeepArgs(prev, new) == new

\* What onNoteChange.callback returns: the result of the last invocation,
\* i.e. the index of the newest commit, 0 standing for undefined.
LastResult == Len(commits)

Pending(i) == commits[i].phase \in {"create", "replace", "update"}

Toast(sev, src, call) == [sev |-> sev, src |-> src, call |-> call]

\* The [note?.content] effect: when the bound note's content changes to a
\* truthy value, currentContent is set to it.
SyncContent(old, new, cur) == IF new # old /\ Truthy(new) THEN new ELSE cur

\* ---------------------------------------------------------------- Init
EditorInit ==
    /\ note = "n1"
    /\ store \in [NoteIds -> {"", "a"}]
    /\ query \in {[new |-> FALSE, pid |-> ""], [new |-> TRUE, pid |-> "p1"]}
    /\ asPath = IF query.new THEN NewUrl(note) ELSE NoteUrl(note)
    \* the mount effects: content load and new-note detection
    /\ currentContent = SyncContent("", store[note], "")
    /\ isEditing = query.new
    /\ timer = FALSE
    /\ lastArgs = NoArgs
    /\ window = NoWindow
    /\ windows = 0
    /\ calls = 0
    /\ navs = 0
    /\ commits = <<>>
    /\ saveWait = <<>>
    /\ toasts = {}

\* A session at rest, for the specifications that exercise another part.
EditorRest ==
    /\ note = "n1"
    /\ store = [n \in NoteIds |-> "a"]
    /\ query = [new |-> FALSE, pid |-> ""]
    /\ asPath = NoteUrl(note)
    /\ currentContent = "a"
    /\ isEditing = FALSE
    /\ timer = FALSE
    /\ lastArgs = NoArgs
    /\ window = NoWindow
    /\ windows = 0
    /\ calls = 0
    /\ navs = 0
    /\ commits = <<>>
    /\ saveWait = <<>>
    /\ toasts = {}

\* ------------------------------------------------- the debounced callback
\* onNoteChange.callback(data): keep the arguments, (re)start the timer.
CallDebounced(content, src) ==
    LET args == [content |-> content, call |-> calls + 1, src |-> src,
                 note |-> note] IN
    /\ calls' = calls + 1
    /\ lastArgs' = KeepArgs(lastArgs, args)
    /\ window' = [n |-> window.n + 1, pure |-> window.pure /\ src = "edit",
                   varied |-> window.varied
                              \/ (window.n > 0 /\ window.last.content # content),
                   last |-> args]
    /\ windows' = IF timer THEN windows ELSE windows + 1
    /\ timer' = TRUE

\* ------------------------------------------------ promise reactions
Awaiting(i) == SelectSeq(saveWait, LAMBDA w : w.promise = i)

\* The continuation of saveNote after its await (lines 223-228): a success
\* toast when the awaited value was fulfilled, an error toast from the catch
\* block when it was rejected.
SaveToast(ok, call) ==
    IF ok THEN Toast("success", "save", call) ELSE Toast("error", "save", call)

\* setIsEditing(false) on line 224 runs only on the success path.
SaveEditing(ok, editing) == IF ok THEN FALSE ELSE editing

\* The record of an invocation whose promise is fulfilled or rejected: its
\* reactions have run and its locals are gone.
Settled(c, ok) ==
    [c EXCEPT !.phase = IF ok THEN "done" ELSE "failed", !.catchers = 0, !.url = <<>>]

\* Promise i settles: the .catch handlers attached by onEditorChange (line
\* 172) and the saveNote calls awaiting it (line 222) run as microtasks.
Settle(i, ok, editing) ==
    LET ws == Awaiting(i) IN
    /\ toasts' = toasts
                 \cup (IF ok \/ commits[i].catchers = 0 THEN {}
                       ELSE {Toast("error", "edit", 0)})
                 \cup {SaveToast(ok, ws[k].call) : k \in 1..Len(ws)}
    /\ isEditing' = IF ws = <<>> THEN editing ELSE SaveEditing(ok, editing)
    /\ saveWait' = SelectSeq(saveWait, LAMBDA w : w.promise # i)

\* ---------------------------------------------------------- operations
toggleEditModeCancelling ==
    /\ UNCHANGED <<hoverVars, backVars, sideVars>>
    /\ returnValue' = NoEvent
    /\ isEditing' = ~isEditing
    /\ timer' = FALSE
    /\ lastArgs' = NoArgs
    /\ window' = NoWindow
    /\ UNCHANGED <<currentContent, note, store, query, asPath,
                   windows, calls, commits, saveWait, toasts, navs>>

\* toggleEditMode(), lines 234-236: setIsEditing((prev) => !prev).
toggleEditMode ==
    /\ UNCHANGED <<hoverVars, backVars, sideVars>>
    /\ returnValue' = NoEvent
    /\ isEditing' = ~isEditing
    /\ UNCHANGED <<currentContent, note, store, query, asPath, timer, lastArgs,
                   window, windows, calls, commits, saveWait, toasts, navs>>

onEditorChangeAlways(v) ==
    /\ UNCHANGED <<hoverVars, backVars, sideVars>>
    /\ returnValue' = NoEvent
    /\ calls < MaxCalls
    /\ CallDebounced(v, "edit")
    /\ UNCHANGED <<isEditing, currentContent, note, store, query, asPath, saveWait,
                   navs, commits, toasts>>

\* onEditorChange(value), lines 164-183.
onEditorChange(v) ==
    /\ UNCHANGED <<hoverVars, backVars, sideVars>>
    /\ returnValue' = NoEvent
    /\ calls < MaxCalls
    /\ IF isEditing
       THEN /\ CallDebounced(v, "edit")
            /\ IF LastResult = 0
               THEN \* undefined.catch throws; the outer catch reports it
                    /\ toasts' = toasts \cup {Toast("error", "change", 0)}
                    /\ UNCHANGED commits
               ELSE IF Pending(LastResult)
               THEN /\ commits' = [commits EXCEPT ![LastResult].catchers = 1]
                    /\ UNCHANGED toasts
               ELSE IF commits[LastResult].phase = "failed"
               THEN /\ toasts' = toasts \cup {Toast("error", "edit", 0)}
                    /\ UNCHANGED commits
               ELSE UNCHANGED <<commits, toasts>>
       ELSE UNCHANGED <<timer, lastArgs, window, windows, calls, commits, toasts>>
    /\ UNCHANGED <<isEditing, currentContent, note, store, query, asPath, saveWait,
                   navs>>

\* saveNote(), lines 218-232.
saveNote ==
    /\ UNCHANGED <<hoverVars, backVars, sideVars>>
    /\ returnValue' = NoEvent
    /\ calls < MaxCalls
    /\ IF Truthy(currentContent)
       THEN /\ CallDebounced(currentContent, "save")
            /\ IF LastResult # 0 /\ Pending(LastResult)
               THEN /\ saveWait' = Append(saveWait,
                                    [promise |-> LastResult, call |-> calls + 1])
                    /\ UNCHANGED <<toasts, isEditing>>
               ELSE LET ok == LastResult = 0 \/ commits[LastResult].phase = "done" IN
                    /\ toasts' = toasts \cup {SaveToast(ok, calls + 1)}
                    /\ isEditing' = SaveEditing(ok, isEditing)
                    /\ UNCHANGED saveWait
       ELSE UNCHANGED <<timer, lastArgs, window, windows, calls, saveWait, toasts,
                        isEditing>>
    /\ UNCHANGED <<currentContent, note, store, query, asPath, commits, navs>>

\* has(router.query, 'new'), line 58.
IsNew == query.new

\* The invocation of the debounced function with its latest arguments: the
\* synchronous part of lines 57-70, up to the createNote / updateNote call.
onNoteChange(data) ==
    [kind |-> IF IsNew THEN "create" ELSE "update",
     phase |-> IF IsNew THEN "create" ELSE "update",
     content |-> data.content,
     call |-> data.call,
     src |-> data.src,
     origin |-> data.note,
     target |-> note,
     pid |-> IF IsNew THEN (IF query.pid # "" THEN query.pid ELSE ROOT_ID) ELSE "",
     url |-> <<>>,
     catchers |-> 0,
     coalesced |-> window]

\* The 500 ms timer elapses: one invocation with the latest arguments.
TimerElapsed ==
    /\ UNCHANGED <<hoverVars, backVars, sideVars>>
    /\ returnValue' = NoEvent
    /\ timer
    /\ commits' = Append(commits, onNoteChange(lastArgs))
    /\ timer' = FALSE
    /\ lastArgs' = NoArgs
    /\ window' = NoWindow
    /\ UNCHANGED <<isEditing, currentContent, note, store, query, asPath, windows,
                   calls, saveWait, toasts, navs>>

\* createNote resolves with the created note, resolves with nothing, or
\* rejects (lines 62-67).
createNoteReturns(i, outcome) ==
    /\ UNCHANGED <<hoverVars, backVars, sideVars>>
    /\ returnValue' = NoEvent
    /\ commits[i].phase = "create"
    /\ LET c == commits[i]
           url == NoteUrl(IF outcome = "item" THEN c.target ELSE "undefined")
       IN
       IF outcome = "reject"
       THEN /\ commits' = [commits EXCEPT ![i] = Settled(@, FALSE)]
            /\ Settle(i, FALSE, isEditing)
            /\ UNCHANGED <<store, currentContent>>
       ELSE /\ store' = IF outcome = "item"
                        THEN [store EXCEPT ![c.target] = c.content] ELSE store
            /\ currentContent' = SyncContent(store[note], store'[note], currentContent)
            /\ IF asPath # url
               THEN /\ commits' = [commits EXCEPT ![i].phase = "replace", ![i].url = url]
                    /\ UNCHANGED <<toasts, isEditing, saveWait>>
               ELSE /\ commits' = [commits EXCEPT ![i] = Settled(@, TRUE)]
                    /\ Settle(i, TRUE, isEditing)
    /\ UNCHANGED <<note, query, asPath, timer, lastArgs, window, windows, calls, navs>>

\* router.replace(noteUrl, undefined, {shallow: true}) resolves or rejects.
routerReplaceReturns(i, ok) ==
    /\ UNCHANGED <<hoverVars, backVars, sideVars>>
    /\ returnValue' = NoEvent
    /\ commits[i].phase = "replace"
    /\ commits' = [commits EXCEPT ![i] = Settled(@, ok)]
    /\ asPath' = IF ok THEN commits[i].url ELSE asPath
    /\ query' = IF ok THEN [new |-> FALSE, pid |-> ""] ELSE query
    /\ Settle(i, ok, isEditing)
    /\ UNCHANGED <<currentContent, note, store, timer, lastArgs, window, windows, calls, navs>>

\* updateNote(data) resolves or rejects (line 69).  The patch carries no note
\* id: it is applied to the note that was bound when the call was made.
updateNoteReturns(i, ok) ==
    /\ UNCHANGED <<hoverVars, backVars, sideVars>>
    /\ returnValue' = NoEvent
    /\ commits[i].phase = "update"
    /\ commits' = [commits EXCEPT ![i] = Settled(@, ok)]
    /\ store' = IF ok THEN [store EXCEPT ![commits[i].target] = commits[i].content]
                ELSE store
    /\ currentContent' = SyncContent(store[note], store'[note], currentContent)
    /\ Settle(i, ok, isEditing)
    /\ UNCHANGED <<note, query, asPath, timer, lastArgs, window, windows, calls, navs>>

Queries == {[new |-> FALSE, pid |-> ""], [new |-> TRUE, pid |-> ""]}

\* Another note becomes the bound one (note and router.query change); the
\* effects of lines 186-190 and 193-200 run.
NoteChanged(n, q) ==
    /\ UNCHANGED <<hoverVars, backVars, sideVars>>
    /\ returnValue' = NoEvent
    /\ navs < MaxNavs
    /\ navs' = navs + 1
    /\ n # note
    /\ note' = n
    /\ query' = q
    /\ asPath' = IF q.new THEN NewUrl(n) ELSE NoteUrl(n)
    /\ currentContent' = SyncContent(store[note], store[n], currentContent)
    /\ isEditing' = IF q.new THEN TRUE ELSE isEditing
    /\ UNCHANGED <<store, timer, lastArgs, window, windows, calls, commits,
                   saveWait, toasts>>

\* The confirmation message set on the event, and an event left untouched.
Message == "unsaved"
Unset == "unset"

UnloadGuardAnyMode == currentContent # store[note]

\* Line 205: isEditing && currentContent !== note?.content
UnloadGuard == isEditing /\ currentContent # store[note]

\* handleBeforeUnload(e), lines 204-210, as registered by the last render.
handleBeforeUnload ==
    /\ returnValue' = IF UnloadGuard THEN Message ELSE Unset
    /\ UNCHANGED <<editorVars, hoverVars, backVars, sideVars>>

EditorNext ==
    \/ toggleEditMode
    \/ \E v \in Contents : onEditorChange(v)
    \/ saveNote
    \/ TimerElapsed
    \/ \E i \in 1..Len(commits) : \E o \in {"item", "null", "reject"} :
           createNoteReturns(i, o)
    \/ \E i \in 1..Len(commits) : \E ok \in BOOLEAN : routerReplaceReturns(i, ok)
    \/ \E i \in 1..Len(commits) : \E ok \in BOOLEAN : updateNoteReturns(i, ok)
    \/ \E n \in NoteIds : \E q \in Queries : NoteChanged(n, q)

\* ======================================================= hover dispatcher
\* Strings the dispatcher inspects are sequences of characters.
Undefined == <<"undefined">>
NoAnchor == "none"
NoHref == <<"null">>
IdChars == {"n", "1", "2", "a", "b"}

\* The hovered elements: the href attribute (or none) and the bookmark class.
Elements == {"e1", "e2", "e3", "e4", "e5", "e6", "e7"}

Href(e) ==
    CASE e = "e1" -> <<"/", "n", "1">>
      [] e = "e2" -> <<"h", ":", "/", "/", "x">>
      [] e = "e3" -> NoHref
      [] e = "e4" -> <<"/", "n", "2">>
      [] e = "e5" -> <<"/", "a", "/", "b">>
      [] e = "e6" -> <<>>
      [] e = "e7" -> <<"/", "n", "2">>

Bookmark(e) == e = "e4"

\* isNoteLink of libs/shared/note: a slash followed by the characters of a
\* note id and nothing else.
isNoteLink(h) ==
    /\ Len(h) >= 2
    /\ h[1] = "/"
    /\ \A k \in 2..Len(h) : h[k] \in IdChars

\* href.slice(1)
Slice1(h) == IF h = <<>> THEN <<>> ELSE Tail(h)

\* `if (href)`: a missing attribute (null) and the empty string are falsy.
HasHref(h) == h # NoHref /\ h # <<>>

InertBrowserOnly == ~isBrowser

\* Line 124: the dispatcher does nothing outside a browser or when the
\* editor is read-only.
Inert == ~isBrowser \/ readOnly

PreviewKeepSlash(e) == [id |-> Href(e), anchor |-> e, visible |-> FALSE]

\* Lines 134-136: preview.close(); preview.setData({id}); preview.setAnchor(link)
PreviewFor(e) == [id |-> Slice1(Href(e)), anchor |-> e, visible |-> FALSE]

\* Lines 138-139: linkToolbar.setData({href, view}); linkToolbar.setAnchor(link)
ToolbarFor(e) == [href |-> Href(e), anchor |-> e]

\* Line 142: preview.setData({id: undefined})
PreviewCleared == [preview EXCEPT !.id = Undefined]

HoverInit ==
    /\ isBrowser \in BOOLEAN
    /\ readOnly \in BOOLEAN
    /\ preview = [id |-> Undefined, anchor |-> NoAnchor, visible |-> FALSE]
    /\ linkToolbar = [href |-> Undefined, anchor |-> NoAnchor]
    /\ event = [op |-> "none", el |-> "none"]

HoverRest ==
    /\ isBrowser = TRUE
    /\ readOnly = FALSE
    /\ preview = [id |-> Undefined, anchor |-> NoAnchor, visible |-> FALSE]
    /\ linkToolbar = [href |-> Undefined, anchor |-> NoAnchor]
    /\ event = [op |-> "none", el |-> "none"]

\* onHoverLink(event), lines 122-147, event.target being element e.
onHoverLink(e) ==
    /\ UNCHANGED <<editorVars, backVars, returnValue, sideVars>>
    /\ event' = [op |-> "hover", el |-> e]
    /\ IF Inert \/ Bookmark(e)
       THEN UNCHANGED <<preview, linkToolbar>>
       ELSE IF HasHref(Href(e))
       THEN IF isNoteLink(Href(e))
            THEN /\ preview' = PreviewFor(e)
                 /\ UNCHANGED linkToolbar
            ELSE /\ linkToolbar' = ToolbarFor(e)
                 /\ UNCHANGED preview
       ELSE /\ preview' = PreviewCleared
            /\ UNCHANGED linkToolbar
    /\ UNCHANGED <<isBrowser, readOnly>>

\* The readOnly prop of the editor component changes.
SetReadOnly(b) ==
    /\ UNCHANGED <<editorVars, backVars, returnValue, sideVars>>
    /\ readOnly # b
    /\ readOnly' = b
    /\ event' = [op |-> "readOnly", el |-> "none"]
    /\ UNCHANGED <<isBrowser, preview, linkToolbar>>

\* The preview component shows the preview of the note it was given
\* (preview.open() of PortalState).
PreviewShown ==
    /\ UNCHANGED <<editorVars, backVars, returnValue, sideVars>>
    /\ preview.id # Undefined
    /\ ~preview.visible
    /\ preview' = [preview EXCEPT !.visible = TRUE]
    /\ event' = [op |-> "open", el |-> "none"]
    /\ UNCHANGED <<isBrowser, readOnly, linkToolbar>>

HoverNext ==
    \/ \E e \in Elements : onHoverLink(e)
    \/ \E b \in BOOLEAN : SetReadOnly(b)
    \/ PreviewShown

PreviewOpen == preview.id # Undefined /\ preview.anchor # NoAnchor

ToolbarOpen == linkToolbar.href # Undefined /\ linkToolbar.anchor # NoAnchor

\* ========================================================= backlink scan
MaxCache == 3
\* getBackLinks calls whose cache iteration may be running at once.
MaxScans == 2
NoId == "none"
NoLinks == {"absent"}
NoBacklinks == <<"undefined">>
NoCall == "never"

\* linkIds of a snapshot: a list of note ids, or no linkIds field at all.
LinkSets == {NoLinks, {}, {"n1"}, {"n2"}, {"n1", "n2"}}

IncludesLoose(value, id) == value.linkIds = NoLinks \/ id \in value.linkIds

\* value.linkIds?.includes(id)
Includes(value, id) == value.linkIds # NoLinks /\ id \in value.linkIds

BackInit ==
    /\ \E len \in 0..MaxCache : \E f \in [1..len -> LinkSets] :
           noteCache = [k \in 1..len |-> [key |-> k, linkIds |-> f[k]]]
    /\ backlinks = NoBacklinks
    /\ scans = <<>>
    /\ published = NoId
    /\ lastCall = NoCall

BackRest ==
    /\ noteCache = <<>>
    /\ backlinks = NoBacklinks
    /\ scans = <<>>
    /\ published = NoId
    /\ lastCall = NoCall

\* getBackLinks(), lines 151-155: nothing happens without a note id;
\* otherwise backlinks is emptied and the iteration starts.
getBackLinks ==
    /\ UNCHANGED <<isEditing, currentContent, store, query, asPath, timer, lastArgs,
                   window, windows, calls, commits, saveWait, toasts, navs>>
    /\ UNCHANGED <<hoverVars, returnValue, sideVars>>
    /\ Len(scans) < MaxScans
    /\ IF note = NoId
       THEN UNCHANGED <<backlinks, scans, published>>
       ELSE /\ backlinks' = <<>>
            /\ scans' = Append(scans, [id |-> note, pos |-> 0, linkNotes |-> <<>>])
            /\ published' = NoId
    /\ lastCall' = note
    /\ UNCHANGED <<noteCache, note>>

\* Lines 156-160: the visitor is handed the next snapshot.
Visit(scan) ==
    LET value == noteCache[scan.pos + 1] IN
    [scan EXCEPT !.pos = @ + 1,
                 !.linkNotes = IF Includes(value, scan.id)
                               THEN Append(@, value) ELSE @]

iterate(k) ==
    /\ UNCHANGED <<isEditing, currentContent, store, query, asPath, timer, lastArgs,
                   window, windows, calls, commits, saveWait, toasts, navs>>
    /\ UNCHANGED <<hoverVars, returnValue, sideVars>>
    /\ scans[k].pos < Len(noteCache)
    /\ scans' = [scans EXCEPT ![k] = Visit(scans[k])]
    /\ UNCHANGED <<noteCache, backlinks, published, lastCall, note>>

\* Line 161: the iteration is over, the matches are published.
setBackLinks(k) ==
    /\ UNCHANGED <<isEditing, currentContent, store, query, asPath, timer, lastArgs,
                   window, windows, calls, commits, saveWait, toasts, navs>>
    /\ UNCHANGED <<hoverVars, returnValue, sideVars>>
    /\ scans[k].pos = Len(noteCache)
    /\ backlinks' = scans[k].linkNotes
    /\ published' = scans[k].id
    /\ scans' = [j \in 1..(Len(scans) - 1) |-> IF j < k THEN scans[j] ELSE scans[j + 1]]
    /\ UNCHANGED <<noteCache, lastCall, note>>

\* The session is bound to another note, or to none.
BoundNote(n) ==
    /\ UNCHANGED <<isEditing, currentContent, store, query, asPath, timer, lastArgs,
                   window, windows, calls, commits, saveWait, toasts, navs>>
    /\ UNCHANGED <<hoverVars, returnValue, sideVars>>
    /\ n # note
    /\ note' = n
    /\ UNCHANGED <<noteCache, backlinks, scans, published, lastCall>>

BackNext ==
    \/ getBackLinks
    \/ \E k \in 1..Len(scans) : iterate(k)
    \/ \E k \in 1..Len(scans) : setBackLinks(k)
    \/ \E n \in NoteIds \cup {NoId} : BoundNote(n)

\* ========================================================== link creation
\* onCreateLink calls made in one run.
MaxLinks == 3
Titles == {"t1", "t2"}

\* What createNoteWithTitle resolves with: a note (its id), or nothing.
NoResult == "undefined"
Results == NoteIds \cup {NoResult}

LinkRest == links = <<>>

LinkInit == links = <<>>

LinkOutcomeUnchecked(result) == [state |-> "returned", value |-> NoteUrl(result)]

\* Lines 79-83: throw new Error('todo') for no result, else `/${result.id}`.
LinkOutcome(result) ==
    IF result = NoResult
    THEN [state |-> "thrown", value |-> <<"todo">>]
    ELSE [state |-> "returned", value |-> NoteUrl(result)]

\* onCreateLink(title) up to the await of line 77.
onCreateLink(title) ==
    /\ Len(links) < MaxLinks
    /\ links' = Append(links, [title |-> title, state |-> "awaiting",
                               result |-> "pending", value |-> <<>>])
    /\ UNCHANGED <<editorVars, hoverVars, backVars, returnValue, errVars>>

\* createNoteWithTitle resolves for call k; lines 79-83 run.
createNoteWithTitleReturns(k, result) ==
    /\ links[k].state = "awaiting"
    /\ links' = [links EXCEPT ![k] = [title |-> @.title,
                                      state |-> LinkOutcome(result).state,
                                      result |-> result,
                                      value |-> LinkOutcome(result).value]]
    /\ UNCHANGED <<editorVars, hoverVars, backVars, returnValue, errVars>>

\* createNoteWithTitle rejects for call k: the await of line 77 throws.
createNoteWithTitleRejects(k) ==
    /\ links[k].state = "awaiting"
    /\ links' = [links EXCEPT ![k] = [title |-> @.title, state |-> "thrown",
                                      result |-> "rejected", value |-> <<"rejected">>]]
    /\ UNCHANGED <<editorVars, hoverVars, backVars, returnValue, errVars>>

LinkNext ==
    \/ \E t \in Titles : onCreateLink(t)
    \/ \E k \in 1..Len(links) : \E r \in Results : createNoteWithTitleReturns(k, r)
    \/ \E k \in 1..Len(links) : createNoteWithTitleRejects(k)

\* ===================================================== error handlers
ErrRest ==
    /\ onerror = "none"
    /\ onunhandledrejection = "none"
    /\ routeListener = FALSE
    /\ mounted = FALSE
    /\ originalErrorHandler = "none"
    /\ originalUnhandledRejection = "none"
    /\ editModeToggle = FALSE
    /\ report = [kind |-> "none"]

\* A handler slot of window: empty, a handler installed before the component
\* mounted, or the function the component installs.
NoHandler == "none"
PrevHandler == "prev"
OwnHandler == "handler"

\* Messages are sequences of words; text = FALSE stands for a message that is
\* not a string (an Event handed to onerror, a reason without message).
Words(w) == [text |-> TRUE, words |-> w]
NotText == [text |-> FALSE, words |-> <<>>]
Messages ==
    {Words(<<"Route", "Cancelled">>),
     Words(<<"Error:", "Cancel", "rendering", "route", "/n1">>),
     Words(<<"Loading", "initial", "props", "cancelled">>),
     Words(<<"Route", "not", "Cancelled">>),
     Words(<<"route", "cancelled">>),
     Words(<<"TypeError">>),
     NotText}

\* String.prototype.includes on word sequences.
MessageIncludes(msg, part) ==
    \E i \in 0..Len(msg.words) :
        /\ i + Len(part) <= Len(msg.words)
        /\ SubSeq(msg.words, i + 1, i + Len(part)) = part

\* Lines 35-39, 70-76, 102-106.
IsRouteCancel(msg) ==
    /\ msg.text
    /\ \/ MessageIncludes(msg, <<"Route", "Cancelled">>)
       \/ MessageIncludes(msg, <<"Cancel", "rendering", "route">>)
       \/ MessageIncludes(msg, <<"Loading", "initial", "props", "cancelled">>)

\* What a run of an installed global handler did: its return value, whether
\* it treated the error itself, and whether it called the saved handler
\* (whose return value is r).  Lines 64-88 and 95-119.
GlobalHandler(msg, original, r) ==
    IF editModeToggle
    THEN [ret |-> FALSE, own |-> FALSE, forwarded |-> FALSE]
    ELSE IF IsRouteCancel(msg)
    THEN [ret |-> TRUE, own |-> TRUE, forwarded |-> FALSE]
    ELSE IF original # NoHandler
    THEN [ret |-> r, own |-> FALSE, forwarded |-> TRUE]
    ELSE [ret |-> FALSE, own |-> FALSE, forwarded |-> FALSE]

\* handleRouteError(error), lines 27-53.
handleRouteError(msg) ==
    IF editModeToggle
    THEN [ret |-> FALSE, own |-> FALSE, forwarded |-> FALSE]
    ELSE IF IsRouteCancel(msg)
    THEN [ret |-> TRUE, own |-> TRUE, forwarded |-> FALSE]
    ELSE [ret |-> FALSE, own |-> FALSE, forwarded |-> FALSE]

\* The event reaches whatever sits in the slot.
Dispatch(kind, slot, msg, original, r) ==
    LET run == IF slot = OwnHandler THEN GlobalHandler(msg, original, r)
               ELSE IF slot = PrevHandler
               THEN [ret |-> r, own |-> FALSE, forwarded |-> TRUE]
               ELSE [ret |-> FALSE, own |-> FALSE, forwarded |-> FALSE] IN
    [kind |-> kind, msg |-> msg, via |-> slot, original |-> original,
     toggle |-> editModeToggle, ret |-> run.ret, own |-> run.own,
     forwarded |-> run.forwarded]

ErrInit ==
    /\ onerror \in {NoHandler, PrevHandler}
    /\ onunhandledrejection \in {NoHandler, PrevHandler}
    /\ routeListener = FALSE
    /\ mounted = FALSE
    /\ originalErrorHandler = NoHandler
    /\ originalUnhandledRejection = NoHandler
    /\ editModeToggle = FALSE
    /\ report = [kind |-> "none"]

\* The effect of lines 25-120 runs: the listener is registered, the two
\* slots are saved and overwritten.
Mount ==
    /\ ~mounted
    /\ mounted' = TRUE
    /\ routeListener' = TRUE
    /\ originalErrorHandler' = onerror
    /\ onerror' = OwnHandler
    /\ originalUnhandledRejection' = onunhandledrejection
    /\ onunhandledrejection' = OwnHandler
    /\ UNCHANGED <<editModeToggle, report>>
    /\ UNCHANGED <<editorVars, hoverVars, backVars, returnValue, links>>

\* The cleanup of lines 123-132.
Unmount ==
    /\ mounted
    /\ mounted' = FALSE
    /\ routeListener' = FALSE
    /\ onerror' = originalErrorHandler
    /\ onunhandledrejection' = originalUnhandledRejection
    /\ originalErrorHandler' = NoHandler
    /\ originalUnhandledRejection' = NoHandler
    /\ UNCHANGED <<editModeToggle, report>>
    /\ UNCHANGED <<editorVars, hoverVars, backVars, returnValue, links>>

\* Other code of the page sets or clears window.__EDIT_MODE_TOGGLE__.
SetEditModeToggle(b) ==
    /\ editModeToggle # b
    /\ editModeToggle' = b
    /\ UNCHANGED <<onerror, onunhandledrejection, routeListener, mounted,
                   originalErrorHandler, originalUnhandledRejection, report>>
    /\ UNCHANGED <<editorVars, hoverVars, backVars, returnValue, links>>

\* An uncaught error reaches window.onerror (lines 62-89).
ErrorEvent(msg, r) ==
    /\ report' = Dispatch("error", onerror, msg, originalErrorHandler, r)
    /\ UNCHANGED <<onerror, onunhandledrejection, routeListener, mounted,
                   originalErrorHandler, originalUnhandledRejection, editModeToggle>>
    /\ UNCHANGED <<editorVars, hoverVars, backVars, returnValue, links>>

\* An unhandled rejection reaches window.onunhandledrejection (lines 93-120).
RejectionEvent(msg, r) ==
    /\ report' = Dispatch("rejection", onunhandledrejection, msg,
                          originalUnhandledRejection, r)
    /\ UNCHANGED <<onerror, onunhandledrejection, routeListener, mounted,
                   originalErrorHandler, originalUnhandledRejection, editModeToggle>>
    /\ UNCHANGED <<editorVars, hoverVars, backVars, returnValue, links>>

\* The router emits routeChangeError to the registered listener.
RouteChangeError(msg) ==
    /\ routeListener
    /\ report' = [kind |-> "route", msg |-> msg, via |-> OwnHandler,
                  original |-> NoHandler, toggle |-> editModeToggle,
                  ret |-> handleRouteError(msg).ret,
                  own |-> handleRouteError(msg).own,
                  forwarded |-> handleRouteError(msg).forwarded]
    /\ UNCHANGED <<onerror, onunhandledrejection, routeListener, mounted,
                   originalErrorHandler, originalUnhandledRejection, editModeToggle>>
    /\ UNCHANGED <<editorVars, hoverVars, backVars, returnValue, links>>

ErrNext ==
    \/ Mount
    \/ Unmount
    \/ \E b \in BOOLEAN : SetEditModeToggle(b)
    \/ \E msg \in Messages : \E r \in BOOLEAN : ErrorEvent(msg, r)
    \/ \E msg \in Messages : \E r \in BOOLEAN : RejectionEvent(msg, r)
    \/ \E msg \in Messages : RouteChangeError(msg)

SideRest == returnValue = NoEvent /\ LinkRest /\ ErrRest

\* ================================================================ claims
InFlight == {i \in 1..Len(commits) : Pending(i)}

\* C1: every debounce window that has elapsed produced exactly one commit,
\* and a commit of a window made of edit events only carries the content of
\* the last edit of that window.
C1_OneCommitPerWindow ==
    /\ Len(commits) = IF timer THEN windows - 1 ELSE windows
    /\ \A i \in 1..Len(commits) :
           commits[i].coalesced.pure =>
               /\ commits[i].content = commits[i].coalesced.last.content
               /\ commits[i].call = commits[i].coalesced.last.call

\* Two edits of different contents were coalesced into one commit.
C1_Witness ==
    \E i \in 1..Len(commits) :
        /\ commits[i].coalesced.pure
        /\ commits[i].coalesced.n >= 2
        /\ commits[i].coalesced.varied
        /\ Len(commits) = windows

\* C2: a success notification of saveNote is given only after the
\* persistence call for the saved content was issued and has succeeded.
C2_SuccessAfterCommit ==
    \A t \in toasts :
        (t.src = "save" /\ t.sev = "success") =>
            \E i \in 1..Len(commits) :
                commits[i].call = t.call /\ commits[i].phase = "done"

\* C3: when the persistence call triggered by a saveNote fails, that save
\* reported an error and no success.
C3_FailureReported ==
    \A i \in 1..Len(commits) :
        (commits[i].src = "save" /\ commits[i].phase = "failed") =>
            /\ Toast("error", "save", commits[i].call) \in toasts
            /\ Toast("success", "save", commits[i].call) \notin toasts

\* C4: once a saveNote has completed, no debounce timer is pending for the
\* snapshot it handed over, so no commit of that snapshot fires afterwards.
C4_SaveCancelsTimer ==
    \A t \in toasts :
        t.src = "save" => ~(timer /\ lastArgs.call = t.call)

\* C5: createNote is invoked at most once for a new note: no second
\* createNote is issued for it while the first has not failed.
C5_CreateOnce ==
    \A i, j \in 1..Len(commits) :
        (/\ i < j
         /\ commits[i].kind = "create" /\ commits[j].kind = "create"
         /\ commits[i].target = commits[j].target)
            => (commits[i].phase = "failed" \/ commits[j].phase = "failed")

\* C6: at most one commit of a session is in flight at any time.
C6_OneInFlight ==
    \A i, j \in InFlight : commits[i].target = commits[j].target => i = j

\* C7: a pending debounced commit does not survive a change of the bound
\* note, and no patch is written to another note than the one it was made
\* for.
C7_NoCrossNoteWrite ==
    /\ (timer /\ lastArgs.src = "edit") => lastArgs.note = note
    /\ \A i \in 1..Len(commits) :
           commits[i].src = "edit" => commits[i].target = commits[i].origin

\* C12: a beforeunload event gets the confirmation message exactly when
\* isEditing is true and currentContent differs from the bound note's
\* content.
C12_UnloadGuard ==
    returnValue # NoEvent =>
        /\ (~isEditing => returnValue = Unset)
        /\ (currentContent = store[note] => returnValue = Unset)
        /\ ((isEditing /\ ~(currentContent = store[note])) => returnValue = Message)

\* The guard has triggered.
C12_Witness == returnValue = Message /\ isEditing

\* C13: currentContent equals the persisted content of the bound note, also
\* after the session is bound to another note or to a note with empty content.
C13_ContentSynced == currentContent = store[note]

\* C14: a commit of a not yet persisted note carries the parent id of the
\* query or the root sentinel, and the location is replaced only with the
\* canonical address of the created note: never with an address built from
\* no note.
C14_CanonicalReplace ==
    /\ \A i \in 1..Len(commits) :
          /\ (commits[i].kind = "create" => commits[i].pid \in {"p1", ROOT_ID})
          /\ (commits[i].phase = "replace" => commits[i].url = NoteUrl(commits[i].target))
    /\ asPath # NoteUrl("undefined")

\* C15: onCreateLink returns "/<id>" of the note createNoteWithTitle yielded,
\* throws when it yielded none, and returns no other address.
C15_LinkFromCreatedNote ==
    \A k \in 1..Len(links) :
        /\ (links[k].state = "returned" =>
               \E id \in NoteIds : links[k].result = id /\ links[k].value = <<"/", id>>)
        /\ (links[k].result \in NoteIds => links[k].state = "returned")
        /\ (links[k].result = NoResult => links[k].state = "thrown")

\* One call has thrown for no note while an overlapping one returned "/n2".
C15_Witness ==
    /\ Len(links) >= 2
    /\ links[1].state = "thrown" /\ links[1].result = NoResult
    /\ links[2].state = "returned" /\ links[2].value = <<"/", "n2">>

\* C16: toggleEditMode flips isEditing and changes nothing else: no
\* persistence call is issued, the debounce timer and its pending arguments
\* stay as they are, and currentContent and the backlinks are untouched; a
\* second toggle therefore restores isEditing.
C16_ToggleOnlyFlips ==
    [][toggleEditMode =>
          /\ isEditing' = ~isEditing
          /\ commits' = commits
          /\ timer' = timer /\ lastArgs' = lastArgs
          /\ currentContent' = currentContent
          /\ backlinks' = backlinks
          /\ store' = store /\ toasts' = toasts /\ saveWait' = saveWait]_vars

\* Edit mode was switched off by a toggle while an edit is still pending.
C16_Witness ==
    /\ timer /\ lastArgs.src = "edit"
    /\ ~isEditing
    /\ \A t \in toasts : t.src # "save"
    /\ saveWait = <<>>

\* C17: a saveNote made while an edit is pending commits the text of that
\* latest edit: the arguments it hands to the commit never carry older content
\* in place of the pending edit's.
C17_SaveKeepsLatestEdit ==
    [][(timer /\ lastArgs.src = "edit" /\ lastArgs'.src = "save")
          => lastArgs'.content = lastArgs.content]_vars

\* The snapshots of the cache that list id among their linkIds, in cache
\* order.
Matching(cache, id) == SelectSeq(cache, LAMBDA v : \E l \in v.linkIds : l = id)

\* C8: the backlinks published by a scan for a note id are exactly the
\* snapshots of the cache whose linkIds contain the id, in cache order.
C8_BacklinksExact ==
    published # NoId =>
        /\ backlinks = Matching(noteCache, published)
        /\ Len(backlinks) =
               Cardinality({k \in 1..Len(noteCache) : published \in noteCache[k].linkIds})

\* A scan published some, not all, of a cache holding a snapshot without
\* linkIds.
C8_Witness ==
    /\ published # NoId
    /\ Len(backlinks) >= 2
    /\ Len(backlinks) < Len(noteCache)
    /\ \E k \in 1..Len(noteCache) : noteCache[k].linkIds = NoLinks

Hovered(e) == event = [op |-> "hover", el |-> e] /\ ~Inert /\ ~Bookmark(e)

C11_InertHover ==
    [][\A e \in Elements :
          (event' = [op |-> "hover", el |-> e] /\ (readOnly \/ ~isBrowser \/ Bookmark(e)))
              => (preview' = preview /\ linkToolbar' = linkToolbar)]_vars

\* A link was hovered on a read-only editor in a browser while the preview
\* of another link was open.
C11_Witness ==
    /\ event = [op |-> "hover", el |-> "e1"]
    /\ readOnly /\ isBrowser
    /\ preview.anchor = "e7"

\* C18: once overlapping getBackLinks calls have all completed, backlinks
\* holds the result of the most recent call, not of an earlier one that
\* finished later.
C18_LatestCallWins ==
    (scans = <<>> /\ lastCall \in NoteIds) => backlinks = Matching(noteCache, lastCall)

\* C19: an edit event that arrives while isEditing is false never reaches
\* persistence: it schedules no commit and resets no pending timer.
C19_ViewModeEditsDropped ==
    [][\A v \in Contents :
          (onEditorChange(v) /\ ~isEditing)
              => /\ timer' = timer /\ lastArgs' = lastArgs /\ window' = window
                 /\ calls' = calls /\ commits' = commits
                 /\ store' = store /\ toasts' = toasts]_vars

\* View mode with a commit still pending and room for further edit events.
C19_Witness ==
    /\ ~isEditing
    /\ timer /\ lastArgs.src = "edit"
    /\ calls < MaxCalls

\* C20: an installed global handler treats only route-cancellation messages
\* itself, and passes every other error on to the handler that was installed
\* before it when there is one, also while the edit-mode-toggle flag is set.
C20_OthersForwarded ==
    (report.kind \in {"error", "rejection"} /\ report.via = OwnHandler) =>
        /\ (report.own => IsRouteCancel(report.msg))
        /\ ((~IsRouteCancel(report.msg) /\ report.original = PrevHandler)
               => report.forwarded)

\* C10: the note preview and the link toolbar are never both open.
C10_OneActiveKind == ~(PreviewOpen /\ ToolbarOpen)

\* ======================================================== specifications
Init == EditorInit /\ HoverRest /\ BackRest /\ SideRest

Next == EditorNext

Spec == Init /\ [][Next]_vars

GuardNext ==
    \/ EditorNext
    \/ handleBeforeUnload

\* The session with the beforeunload events of the window.
GuardSpec == Init /\ [][GuardNext]_vars

LinkStart == EditorRest /\ HoverRest /\ BackRest /\ returnValue = NoEvent /\ LinkInit /\ ErrRest

\* The link-creation callback of the editor.
LinkSpec == LinkStart /\ [][LinkNext]_vars

ErrStart == EditorRest /\ HoverRest /\ BackRest /\ returnValue = NoEvent /\ LinkRest /\ ErrInit

\* The route error handler component and the error events of the window.
ErrSpec == ErrStart /\ [][ErrNext]_vars

HoverStart == EditorRest /\ HoverInit /\ BackRest /\ SideRest

HoverSpec == HoverStart /\ [][HoverNext]_vars

BackStart == EditorRest /\ HoverRest /\ BackInit /\ SideRest

BackSpec == BackStart /\ [][BackNext]_vars

=============================================================================
